---- MODULE Spec2Model ----
(***************************************************************************)
(* A model of the pull-request reviewer in .gitea/scripts/code_review.py   *)
(* and .gitea/scripts/model.py.                                            *)
(*                                                                         *)
(* Text is a sequence of one-character strings, so that the regular        *)
(* expressions, str.lstrip/strip/splitlines, int() and f-string formatting *)
(* of the source are computed character by character.  An intermediate     *)
(* result that is used more than once is handed to a helper operator as a  *)
(* parameter.                                                              *)
(***************************************************************************)
EXTENDS Integers, Sequences, FiniteSets, TLC

(***************************************************************************)
(* Bounds of the model.                                                    *)
(***************************************************************************)
\* Longest hunk body (in lines) of a generated file section.
MaxBody == 2

(***************************************************************************)
(* Characters and elementary string operations.                            *)
(***************************************************************************)
NL == "\n"

\* The backtick character (the lexer of the language accepts no lone backtick
\* inside a string literal, so the character is named).
Backtick == "BACKTICK"

Digits == <<"0", "1", "2", "3", "4", "5", "6", "7", "8", "9">>

DigitSet == {"0", "1", "2", "3", "4", "5", "6", "7", "8", "9"}

\* What \s of the re module matches, among the characters of the model.
Whitespace == {" ", "\t", "\n", "\r"}

\* The least (greatest) element of a set of integers, d when it is empty.
MinOr(S, d) == IF S = {} THEN d ELSE CHOOSE x \in S : \A y \in S : x <= y

MaxOr(S, d) == IF S = {} THEN d ELSE CHOOSE x \in S : \A y \in S : y <= x

\* s[i:] of Python, for a 1-based i.
From(s, i) == SubSeq(s, i, Len(s))

\* Whether p occurs in s at (1-based) position i.
MatchAt(s, i, p) ==
  /\ i >= 1
  /\ i + Len(p) - 1 <= Len(s)
  /\ SubSeq(s, i, i + Len(p) - 1) = p

\* The first position >= i where p occurs in s, 0 when there is none.
FindFrom(s, p, i) == MinOr({j \in i..(Len(s) - Len(p) + 1) : MatchAt(s, j, p)}, 0)

\* The first position >= i of s whose character is in (not in) cs, Len(s)+1
\* when there is none.
FirstIn(s, cs, i) == MinOr({j \in i..Len(s) : s[j] \in cs}, Len(s) + 1)

FirstNotIn(s, cs, i) == MinOr({j \in i..Len(s) : s[j] \notin cs}, Len(s) + 1)

\* The character at position i, "" outside the text.
CharAt(s, i) == IF i >= 1 /\ i <= Len(s) THEN s[i] ELSE ""

\* str.startswith
startswith(s, p) == MatchAt(s, 1, p)

\* str.lstrip(chars): drops every leading character that is in the set chars.
lstrip(s, chars) == From(s, FirstNotIn(s, chars, 1))

\* str.rstrip(chars)
rstrip(s, chars) == SubSeq(s, 1, MaxOr({j \in 1..Len(s) : s[j] \notin chars}, 0))

\* str.strip(chars)
strip(s, chars) == rstrip(lstrip(s, chars), chars)

\* str.split(sep) for a one-character sep: always at least one piece.
RECURSIVE split(_, _), SplitAt(_, _, _)
split(s, sep) == SplitAt(s, sep, FirstIn(s, {sep}, 1))

SplitAt(s, sep, j) ==
  IF j > Len(s) THEN <<s>>
  ELSE <<SubSeq(s, 1, j - 1)>> \o split(From(s, j + 1), sep)

\* str.splitlines(): breaks at \n, \r and \r\n; no empty last line.
RECURSIVE splitlines(_), SplitLinesAt(_, _)
splitlines(s) ==
  IF s = <<>> THEN <<>> ELSE SplitLinesAt(s, FirstIn(s, {"\n", "\r"}, 1))

SplitLinesAt(s, j) ==
  <<SubSeq(s, 1, j - 1)>>
    \o splitlines(From(s, IF CharAt(s, j) = "\r" /\ CharAt(s, j + 1) = "\n"
                          THEN j + 2 ELSE j + 1))

\* sep.join(lines)
RECURSIVE join(_, _)
join(sep, lines) ==
  IF lines = <<>> THEN <<>>
  ELSE IF Len(lines) = 1 THEN lines[1]
  ELSE lines[1] \o sep \o join(sep, Tail(lines))

\* int(text) for a run of decimal digits (what \d+ captured).
DigitValue(c) == (CHOOSE i \in 1..10 : Digits[i] = c) - 1

RECURSIVE int(_)
int(s) ==
  IF s = <<>> THEN 0
  ELSE 10 * int(SubSeq(s, 1, Len(s) - 1)) + DigitValue(s[Len(s)])

\* str(n), the f-string formatting of a non-negative integer.
RECURSIVE str(_)
str(n) ==
  IF n < 10 THEN <<Digits[n + 1]>>
  ELSE str(n \div 10) \o <<Digits[(n % 10) + 1]>>

\* fnmatch.fnmatch(name, pat) on a POSIX host: '*' matches any run of
\* characters, '?' any one character, any other character itself.  The
\* generated patterns hold no '[' character class.
RECURSIVE fnmatch(_, _)
fnmatch(name, pat) ==
  IF pat = <<>> THEN name = <<>>
  ELSE IF pat[1] = "*"
       THEN \E k \in 0..Len(name) : fnmatch(From(name, k + 1), Tail(pat))
  ELSE IF name = <<>> THEN FALSE
  ELSE IF pat[1] = "?" THEN fnmatch(Tail(name), Tail(pat))
  ELSE name[1] = pat[1] /\ fnmatch(Tail(name), Tail(pat))

(***************************************************************************)
(* The three regular expressions of parse_diff.                            *)
(***************************************************************************)
DiffGitA == <<"d", "i", "f", "f", " ", "-", "-", "g", "i", "t", " ", "a", "/">>

SpaceB == <<" ", "b", "/">>

NoMatch == [found |-> FALSE]

\* Where group 3 of file_pattern ends: at the next "diff --git a/" (nx), else
\* at '$', which is the end of the text or just before a newline that ends it.
SectionEnd(diff, g3, nx) ==
  IF nx # 0 THEN nx
  ELSE IF diff[Len(diff)] = NL /\ Len(diff) >= g3 THEN Len(diff)
  ELSE Len(diff) + 1

\* Where group 2 of file_pattern ends: \r?\n ends at the newline at n.
NameEnd(diff, k, n) == IF n > k + 3 /\ diff[n - 1] = "\r" THEN n - 1 ELSE n

FileGroups(diff, a, k, n, e) ==
  [found |-> TRUE,
   group1 |-> SubSeq(diff, a, k - 1),
   group2 |-> SubSeq(diff, k + 3, NameEnd(diff, k, n) - 1),
   group3 |-> SubSeq(diff, n + 1, e - 1),
   end |-> e]

FileLine(diff, a, k, n) ==
  IF n > Len(diff) THEN NoMatch
  ELSE FileGroups(diff, a, k, n, SectionEnd(diff, n + 1, FindFrom(diff, DiffGitA, n + 1)))

FileNames(diff, a, k) ==
  IF k = 0 THEN NoMatch ELSE FileLine(diff, a, k, FirstIn(diff, {NL}, k + 3))

FileAt(diff, st) ==
  IF st = 0 THEN NoMatch
  ELSE FileNames(diff, st + Len(DiffGitA), FindFrom(diff, SpaceB, st + Len(DiffGitA) + 1))

\* file_pattern, searched from position pos:
\*   (?s)diff --git a/(.+?) b/(.*?)\r?\n(.*?)(?=diff --git a/|$)
\* Group 1 runs to the first " b/" at least one character on, group 2 to the
\* first line break after it, group 3 to the next "diff --git a/" or to '$'.
file_pattern(diff, pos) == FileAt(diff, FindFrom(diff, DiffGitA, pos))

\* Whether position i of s is where '^' matches under re.MULTILINE.
LineStart(s, i) == i = 1 \/ (i > 1 /\ i <= Len(s) + 1 /\ s[i - 1] = NL)

Minus3 == <<"-", "-", "-">>

Plus3 == <<"+", "+", "+">>

\* Where old_new_pattern matches: a line start with "---" or "+++" and a
\* whitespace character after it.
PathMarkAt(text, i) ==
  /\ LineStart(text, i)
  /\ (MatchAt(text, i, Minus3) \/ MatchAt(text, i, Plus3))
  /\ CharAt(text, i + 3) \in Whitespace

\* old_new_pattern.finditer(text), as the sequence of its group(2) texts:
\*   (?m)^(---|\+\+\+)\s+(.*)$
\* \s+ is greedy and also runs over line breaks; (.*) is the rest of the line
\* it ends on.
RECURSIVE old_new_pattern(_, _), PathMarkFrom(_, _), PathGroup(_, _, _)
old_new_pattern(text, pos) ==
  PathMarkFrom(text, MinOr({i \in pos..Len(text) : PathMarkAt(text, i)}, 0))

PathMarkFrom(text, i) ==
  IF i = 0 THEN <<>>
  ELSE PathGroup(text, FirstNotIn(text, Whitespace, i + 3),
                 FirstIn(text, {NL}, FirstNotIn(text, Whitespace, i + 3)))

PathGroup(text, j, k) == <<SubSeq(text, j, k - 1)>> \o old_new_pattern(text, k)

\* The end of the longest run of digits that starts at i (i itself when
\* there is no digit at i).
DigitsEnd(s, i) == FirstNotIn(s, DigitSet, i)

\* The end of the optional (?:,(\d+))? at e, where f is the end of the
\* digits after e + 1.
CountEnd(s, e, f) == IF CharAt(s, e) = "," /\ f > e + 1 THEN f ELSE e

AtAtMinus == <<"@", "@", " ", "-">>

SpacePlus == <<" ", "+">>

SpaceAtAt == <<" ", "@", "@">>

HunkGroups(s, d1, e1, d3, e3, c3) ==
  IF MatchAt(s, c3, SpaceAtAt)
  THEN [found |-> TRUE,
        group1 |-> SubSeq(s, d1, e1 - 1),
        group3 |-> SubSeq(s, d3, e3 - 1),
        end |-> FirstIn(s, {NL}, c3 + 3)]
  ELSE NoMatch

HunkNew(s, d1, e1, d3, e3) ==
  IF e3 > d3 THEN HunkGroups(s, d1, e1, d3, e3, CountEnd(s, e3, DigitsEnd(s, e3 + 1)))
  ELSE NoMatch

HunkPlus(s, d1, e1, c1) ==
  IF MatchAt(s, c1, SpacePlus) THEN HunkNew(s, d1, e1, c1 + 2, DigitsEnd(s, c1 + 2))
  ELSE NoMatch

HunkOld(s, d1, e1) ==
  IF e1 > d1 THEN HunkPlus(s, d1, e1, CountEnd(s, e1, DigitsEnd(s, e1 + 1)))
  ELSE NoMatch

\* hunk_pattern matched at position i:
\*   ^@@ -(\d+)(?:,(\d+))? \+(\d+)(?:,(\d+))? @@(.*?)(?=^@@ |$)
\* under MULTILINE|DOTALL: the lazy tail stops at the end of the header line.
HunkAt(s, i) ==
  IF LineStart(s, i) /\ MatchAt(s, i, AtAtMinus)
  THEN HunkOld(s, i + 4, DigitsEnd(s, i + 4))
  ELSE NoMatch

HunkFirst(text, i) == IF i = 0 THEN NoMatch ELSE HunkAt(text, i)

\* hunk_pattern.search(text): the leftmost match.
hunk_pattern(text) ==
  HunkFirst(text, MinOr({i \in 1..Len(text) : HunkAt(text, i).found}, 0))

(***************************************************************************)
(* parse_diff: the body of one iteration of its loop over the file         *)
(* sections, and the line-tagging loop inside it.                          *)
(***************************************************************************)
DevNull == <<"/", "d", "e", "v", "/", "n", "u", "l", "l">>

\* A variant of the loop in which a context line advances both counters, as
\* the line numbers of the two files do.
RECURSIVE TagLinesCounting(_, _, _)
TagLinesCounting(lines, old_idx, new_idx) ==
  IF lines = <<>> THEN <<>>
  ELSE IF startswith(lines[1], <<"-">>)
  THEN <<str(old_idx) \o <<" ">> \o lines[1]>> \o TagLinesCounting(Tail(lines), old_idx + 1, new_idx)
  ELSE IF startswith(lines[1], <<"+">>)
  THEN <<str(new_idx) \o <<" ">> \o lines[1]>> \o TagLinesCounting(Tail(lines), old_idx, new_idx + 1)
  ELSE <<lines[1]>> \o TagLinesCounting(Tail(lines), old_idx + 1, new_idx + 1)

\* The loop over remain_text.splitlines(): a line that starts with '-' gets
\* the old counter, one that starts with '+' the new counter, any other line
\* is appended as it is.
RECURSIVE TagLines(_, _, _)
TagLines(lines, old_idx, new_idx) ==
  IF lines = <<>> THEN <<>>
  ELSE IF startswith(lines[1], <<"-">>)
  THEN <<str(old_idx) \o <<" ">> \o lines[1]>> \o TagLines(Tail(lines), old_idx + 1, new_idx)
  ELSE IF startswith(lines[1], <<"+">>)
  THEN <<str(new_idx) \o <<" ">> \o lines[1]>> \o TagLines(Tail(lines), old_idx, new_idx + 1)
  ELSE <<lines[1]>> \o TagLines(Tail(lines), old_idx, new_idx)

\* A variant of the test made after the prefix characters are stripped, when
\* the sentinel has lost its leading '/'.
IsDeletedLate(new_file) == lstrip(new_file, {"b", "/"}) = DevNull

\* new_file == "/dev/null", line 74.
IsDeleted(new_file) == new_file = DevNull

\* any(fnmatch.fnmatch(new_file, pattern) for pattern in EXCLUDE_PATTERNS)
IsExcluded(new_file, patterns) ==
  \E i \in 1..Len(patterns) : fnmatch(new_file, patterns[i])

Skipped(why) == [outcome |-> why, file |-> <<>>, chunk |-> <<>>]

\* Lines 79 to 106: no hunk header, an excluded path, or the entry appended.
SectionHunk(diff_text, patterns, new_file, hunk_match) ==
  IF ~hunk_match.found THEN Skipped("nohunk")
  ELSE IF IsExcluded(new_file, patterns) THEN Skipped("excluded")
  ELSE [outcome |-> "appended",
        file |-> new_file,
        chunk |-> join(<<NL>>, TagLines(splitlines(From(diff_text, hunk_match.end + 1)),
                                        int(hunk_match.group1), int(hunk_match.group3)))]

\* Lines 66 to 77: the two path lines, the deleted file, new_file.lstrip("b/").
SectionPaths(diff_text, patterns, old_new_match) ==
  IF Len(old_new_match) # 2 THEN Skipped("malformed")
  ELSE IF IsDeleted(old_new_match[2]) THEN Skipped("deleted")
  ELSE SectionHunk(diff_text, patterns, lstrip(old_new_match[2], {"b", "/"}),
                   hunk_pattern(diff_text))

\* One iteration of "for match in file_pattern.finditer(diff)" on
\* diff_text = match.group(3): which way the iteration ends ("malformed",
\* "deleted", "nohunk" and "excluded" are its four continue statements) and,
\* when it appends, the entry appended to list_diff.
ParseSection(diff_text, patterns) ==
  SectionPaths(diff_text, patterns, old_new_pattern(diff_text, 1))

\* What an iteration appends to list_diff.
Appended(r) ==
  IF r.outcome = "appended" THEN <<[file |-> r.file, chunk |-> r.chunk]>> ELSE <<>>

\* parse_diff(diff) from scan position pos on, as a function of the text.
RECURSIVE parse_diff(_, _, _), ParseFrom(_, _, _)
parse_diff(diff, pos, patterns) == ParseFrom(diff, patterns, file_pattern(diff, pos))

ParseFrom(diff, patterns, match) ==
  IF ~match.found THEN <<>>
  ELSE Appended(ParseSection(match.group3, patterns))
         \o parse_diff(diff, match.end, patterns)


(***************************************************************************)
(* The diffs the host serves: file sections rendered into text the way     *)
(* "git diff" writes them.                                                 *)
(***************************************************************************)
Paths == {<<"x", ".", "p", "y">>, <<"b", "i", "n", "/", "m">>, <<"b", ".", "c">>}

\* Hunk body lines: context, removed, added, a removed line whose text is
\* "-- q", an added line whose text is "++ q", the header of a later hunk.
BodyLines == {<<" ", "c">>, <<"-", "o">>, <<"+", "n">>, <<"-", "-", "-", " ", "q">>, <<"+", "+", "+", " ", "q">>, <<"@", "@", " ", "-", "7", " ", "+", "9", " ", "@", "@">>}

\* The (old-start, new-start) pairs of the generated hunk headers.
HunkStarts == {<<9, 12>>}

RECURSIVE SeqsUpTo(_, _)
SeqsUpTo(S, n) ==
  IF n = 0 THEN {<<>>}
  ELSE SeqsUpTo(S, n - 1)
         \cup {Append(r, x) : r \in {q \in SeqsUpTo(S, n - 1) : Len(q) = n - 1}, x \in S}

Bodies == SeqsUpTo(BodyLines, MaxBody)

\* A file section: its path, its kind ("mod" a modified file, "del" a
\* deleted file, "rename" a rename without content change, "bare" a section
\* with path lines and no hunk), the start lines of its hunk and the lines
\* of the hunk's body.
Section(p, k, st, b) == [path |-> p, kind |-> k, start |-> st, body |-> b]

\* The sections whose hunk body ranges over every generated body.
RichSections ==
  {Section(p, "mod", st, b) : p \in Paths, st \in HunkStarts, b \in Bodies}
    \cup {Section(p, "del", <<1, 0>>, <<<<"-", "o">>>>) : p \in Paths}
    \cup {Section(p, k, <<0, 0>>, <<>>) : p \in Paths, k \in {"rename", "bare"}}

\* The fixed sections that come before or after a rich one in a diff.
Companions ==
  {Section(<<"x", ".", "p", "y">>, "mod", <<3, 3>>, <<<<"-", "o">>, <<"+", "n">>>>),
   Section(<<"b", "i", "n", "/", "m">>, "del", <<1, 0>>, <<<<"-", "o">>>>)}

ScenarioASections ==
  <<Section(<<"x", ".", "p", "y">>, "mod", <<1, 1>>, <<<<" ", "c", "o", "n", "t", "e", "x", "t">>, <<"-", "o", "l", "d">>, <<"+", "n", "e", "w", "1">>, <<"+", "n", "e", "w", "2">>>>)>>

Diffs ==
  {<<>>, ScenarioASections}
    \cup {<<r>> : r \in RichSections}
    \cup {<<c, r>> : c \in Companions, r \in RichSections}
    \cup {<<r, c>> : c \in Companions, r \in RichSections}

\* The run length of a hunk header: ",n", left out when n = 1.
Count(n) == IF n = 1 THEN <<>> ELSE <<",">> \o str(n)

CountLines(body, marks) ==
  Cardinality({i \in 1..Len(body) : body[i] # <<>> /\ body[i][1] \in marks})

HunkHeader(sec) ==
  <<"@", "@", " ", "-">> \o str(sec.start[1]) \o Count(CountLines(sec.body, {" ", "-"}))
    \o <<" ", "+">> \o str(sec.start[2])
    \o (IF sec.kind = "del" THEN <<",", "0">> ELSE Count(CountLines(sec.body, {" ", "+"})))
    \o <<" ", "@", "@">> \o <<NL>>

RECURSIVE RenderLines(_)
RenderLines(lines) ==
  IF lines = <<>> THEN <<>> ELSE lines[1] \o <<NL>> \o RenderLines(Tail(lines))

RenderSection(sec) ==
  DiffGitA \o sec.path \o SpaceB \o sec.path \o <<NL>>
    \o (IF sec.kind = "rename" THEN <<"r", "e", "n", "a", "m", "e", " ", "t", "o", " ">> \o sec.path \o <<NL>>
        ELSE <<"-", "-", "-", " ", "a", "/">> \o sec.path \o <<NL>>
             \o (IF sec.kind = "del" THEN <<"+", "+", "+", " ", "/", "d", "e", "v", "/", "n", "u", "l", "l", "\n">>
                 ELSE <<"+", "+", "+", " ", "b", "/">> \o sec.path \o <<NL>>)
             \o (IF sec.kind = "bare" THEN <<>>
                 ELSE HunkHeader(sec) \o RenderLines(sec.body)))

RECURSIVE RenderDiff(_)
RenderDiff(secs) ==
  IF secs = <<>> THEN <<>>
  ELSE RenderSection(secs[1]) \o RenderDiff(Tail(secs))

\* The diff text of end-to-end scenario A, character by character.
ScenarioA ==
  <<"d", "i", "f", "f", " ", "-", "-", "g", "i", "t", " ", "a", "/", "x", ".", "p", "y", " ", "b", "/", "x", ".", "p", "y", "\n", "-", "-", "-", " ", "a", "/", "x", ".", "p", "y", "\n", "+", "+", "+", " ", "b", "/", "x", ".", "p", "y", "\n", "@", "@", " ", "-", "1", ",", "2", " ", "+", "1", ",", "3", " ", "@", "@", "\n", " ", "c", "o", "n", "t", "e", "x", "t", "\n", "-", "o", "l", "d", "\n", "+", "n", "e", "w", "1", "\n", "+", "n", "e", "w", "2", "\n">>

\* The values of the EXCLUDE environment variable ("" is its default).
ExcludeEnvs == {<<>>, <<"*", ".", "p", "y">>, <<"b", "i", "n", "/", "*", ",", "b", "*">>}

(***************************************************************************)
(* json.loads, for the JSON the generated responses hold: arrays, objects, *)
(* strings without escapes, integers and the literals true, false, null.   *)
(* A decoded value is a record [t, v]: t is its type ("arr", "obj", "str", *)
(* "num", "lit") and v its content (the items, the <<key, value>> pairs,   *)
(* the characters, the integer, the literal's name).                       *)
(***************************************************************************)
JsonFail == [ok |-> FALSE]

JsonOk(val, pos) == [ok |-> TRUE, val |-> val, pos |-> pos]

SkipWs(s, i) == FirstNotIn(s, Whitespace, i)

\* The end of the digits of a number whose digits start at d:
\* (0|[1-9][0-9]*), 0 when there is no digit at d.
IntEnd(s, d) ==
  IF CharAt(s, d) = "0" THEN d + 1
  ELSE IF CharAt(s, d) \in DigitSet THEN DigitsEnd(s, d)
  ELSE 0

\* The end of the number that starts at i, 0 when there is no number at i.
NumberEnd(s, i) == IntEnd(s, IF CharAt(s, i) = "-" THEN i + 1 ELSE i)

SignedInt(t) == IF t[1] = "-" THEN 0 - int(Tail(t)) ELSE int(t)

\* A string's closing quote, 0 when the string does not end or holds a
\* control character or a backslash.
ClosingQuote(s, q) == IF CharAt(s, q) = "\"" THEN q ELSE 0

StringEnd(s, i) == ClosingQuote(s, FirstIn(s, {"\"", "\\", "\n", "\r", "\t"}, i))

JTrue == <<"t", "r", "u", "e">>

JFalse == <<"f", "a", "l", "s", "e">>

JNull == <<"n", "u", "l", "l">>

Str(v) == [t |-> "str", v |-> v]

Arr(v) == [t |-> "arr", v |-> v]

Obj(v) == [t |-> "obj", v |-> v]

Num(v) == [t |-> "num", v |-> v]

Lit(v) == [t |-> "lit", v |-> v]

RECURSIVE ParseValue(_, _), ParseArray(_, _), ParseObject(_, _),
          ParseItems(_, _, _), ItemEnd(_, _, _), ItemSep(_, _, _),
          ParseMembers(_, _, _), MemberKey(_, _, _, _), MemberColon(_, _, _, _),
          MemberEnd(_, _, _, _), MemberSep(_, _, _)

ParseString(s, i, q) ==
  IF q = 0 THEN JsonFail ELSE JsonOk(Str(SubSeq(s, i + 1, q - 1)), q + 1)

ParseNumber(s, i, e) ==
  IF e = 0 THEN JsonFail ELSE JsonOk(Num(SignedInt(SubSeq(s, i, e - 1))), e)

\* The value that starts at position i (scan_once).
ParseValue(s, i) ==
  IF CharAt(s, i) = "\"" THEN ParseString(s, i, StringEnd(s, i + 1))
  ELSE IF CharAt(s, i) = "[" THEN ParseArray(s, SkipWs(s, i + 1))
  ELSE IF CharAt(s, i) = "{" THEN ParseObject(s, SkipWs(s, i + 1))
  ELSE IF MatchAt(s, i, JNull) THEN JsonOk(Lit("null"), i + 4)
  ELSE IF MatchAt(s, i, JTrue) THEN JsonOk(Lit("true"), i + 4)
  ELSE IF MatchAt(s, i, JFalse) THEN JsonOk(Lit("false"), i + 5)
  ELSE ParseNumber(s, i, NumberEnd(s, i))

ParseArray(s, j) ==
  IF CharAt(s, j) = "]" THEN JsonOk(Arr(<<>>), j + 1) ELSE ParseItems(s, j, <<>>)

ParseObject(s, j) ==
  IF CharAt(s, j) = "}" THEN JsonOk(Obj(<<>>), j + 1) ELSE ParseMembers(s, j, <<>>)

\* The items of an array from position i on, after the items in acc.
ParseItems(s, i, acc) == ItemEnd(s, acc, ParseValue(s, i))

ItemEnd(s, acc, r) ==
  IF ~r.ok THEN JsonFail ELSE ItemSep(s, Append(acc, r.val), SkipWs(s, r.pos))

ItemSep(s, acc, j) ==
  IF CharAt(s, j) = "]" THEN JsonOk(Arr(acc), j + 1)
  ELSE IF CharAt(s, j) = "," THEN ParseItems(s, SkipWs(s, j + 1), acc)
  ELSE JsonFail

\* The members of an object from position i on, after the members in acc.
ParseMembers(s, i, acc) ==
  IF CharAt(s, i) = "\"" THEN MemberKey(s, i, acc, StringEnd(s, i + 1)) ELSE JsonFail

MemberKey(s, i, acc, q) ==
  IF q = 0 THEN JsonFail
  ELSE MemberColon(s, acc, SubSeq(s, i + 1, q - 1), SkipWs(s, q + 1))

MemberColon(s, acc, key, c) ==
  IF CharAt(s, c) = ":" THEN MemberEnd(s, acc, key, ParseValue(s, SkipWs(s, c + 1)))
  ELSE JsonFail

MemberEnd(s, acc, key, r) ==
  IF ~r.ok THEN JsonFail
  ELSE MemberSep(s, Append(acc, <<key, r.val>>), SkipWs(s, r.pos))

MemberSep(s, acc, j) ==
  IF CharAt(s, j) = "}" THEN JsonOk(Obj(acc), j + 1)
  ELSE IF CharAt(s, j) = "," THEN ParseMembers(s, SkipWs(s, j + 1), acc)
  ELSE JsonFail

\* The whole text must be one value, with whitespace around it at most.
WholeText(s, r) == IF r.ok /\ SkipWs(s, r.pos) = Len(s) + 1 THEN r ELSE JsonFail

\* json.loads(s): [ok |-> FALSE] stands for json.JSONDecodeError.
json_loads(s) == WholeText(s, ParseValue(s, SkipWs(s, 1)))

\* key in d, and d[key] (the last member of that name), for a decoded object.
HasKey(obj, key) == \E i \in 1..Len(obj.v) : obj.v[i][1] = key

GetKey(obj, key) == obj.v[MaxOr({i \in 1..Len(obj.v) : obj.v[i][1] = key}, 0)][2]

(***************************************************************************)
(* create_comment                                                          *)
(***************************************************************************)
KeyLineNumber == <<"l", "i", "n", "e", "N", "u", "m", "b", "e", "r">>

KeyReviewComment == <<"r", "e", "v", "i", "e", "w", "C", "o", "m", "m", "e", "n", "t">>

ReviewPrefix == <<"[", "R", "E", "V", "I", "E", "W", "]", " ">>

\* str(n) for any integer.
SignedStr(n) == IF n < 0 THEN <<"-">> \o str(0 - n) ELSE str(n)

\* f"{value}" for a decoded value.  The generated responses hold strings,
\* numbers and literals as review comments.
Format(val) ==
  IF val.t = "str" THEN val.v
  ELSE IF val.t = "num" THEN SignedStr(val.v)
  ELSE IF val.t = "lit"
  THEN (IF val.v = "null" THEN <<"N", "o", "n", "e">> ELSE IF val.v = "true" THEN <<"T", "r", "u", "e">> ELSE <<"F", "a", "l", "s", "e">>)
  ELSE <<>>

\* A text without its sign.
Unsigned(u) == IF u # <<>> /\ u[1] \in {"+", "-"} THEN Tail(u) ELSE u

AllDigits(d) == d # <<>> /\ \A i \in 1..Len(d) : d[i] \in DigitSet

\* Whether int(text) accepts the text of a str: optional blanks, an optional
\* sign, digits.
IntText(t) == AllDigits(Unsigned(strip(t, Whitespace)))

Signed(u) == IF u[1] = "-" THEN 0 - int(Tail(u)) ELSE int(Unsigned(u))

IntOfText(t) == Signed(strip(t, Whitespace))

\* The exception int(val) raises, "none" when it raises none.
IntRaises(val) ==
  IF val.t = "num" THEN "none"
  ELSE IF val.t = "str" THEN (IF IntText(val.v) THEN "none" ELSE "ValueError")
  ELSE IF val.t = "lit" /\ val.v # "null" THEN "none"
  ELSE "TypeError"

\* int(val), where it raises nothing.
IntOf(val) ==
  IF val.t = "num" THEN val.v
  ELSE IF val.t = "str" THEN IntOfText(val.v)
  ELSE IF val.v = "true" THEN 1 ELSE 0

\* The exception the dict literal of create_comment raises for one item of
\* the response, "none" when it builds the comment.
ItemRaises(item) ==
  IF item.t # "obj" THEN "TypeError"
  ELSE IF ~HasKey(item, KeyReviewComment) THEN "KeyError"
  ELSE IF ~HasKey(item, KeyLineNumber) THEN "KeyError"
  ELSE IntRaises(GetKey(item, KeyLineNumber))

Comment(file, item) ==
  [body |-> ReviewPrefix \o Format(GetKey(item, KeyReviewComment)),
   path |-> file,
   new_position |-> IntOf(GetKey(item, KeyLineNumber))]

\* What "for ai_response in ai_response" iterates over: the items of a list,
\* the keys of a dict, the characters of a str.
Items(val) ==
  IF val.t = "arr" THEN val.v
  ELSE IF val.t = "obj" THEN [i \in 1..Len(val.v) |-> Str(val.v[i][1])]
  ELSE [i \in 1..Len(val.v) |-> Str(<<val.v[i]>>)]

\* The list comprehension of create_comment over items, the first of which
\* to raise is items[bad] (bad = 0: none raises).
CommentsOrRaise(file, items, bad) ==
  IF bad # 0 THEN [raises |-> ItemRaises(items[bad]), comments |-> <<>>]
  ELSE [raises |-> "none", comments |-> [i \in 1..Len(items) |-> Comment(file, items[i])]]

CommentsOf(file, items) ==
  CommentsOrRaise(file, items, MinOr({i \in 1..Len(items) : ItemRaises(items[i]) # "none"}, 0))

\* create_comment(file, ai_response): the exception it raises ("none" when
\* it returns) and the comments it returns.
create_comment(file, ai_response) ==
  IF ai_response.t \in {"num", "lit"} THEN [raises |-> "TypeError", comments |-> <<>>]
  ELSE CommentsOf(file, Items(ai_response))

(***************************************************************************)
(* model.py: provider selection and the request to the model.              *)
(***************************************************************************)
\* PREFIX_TO_MODEL, in its order.
PREFIX_TO_MODEL ==
  <<<<<<"g", "p", "t">>, "openai">>, <<<<"o", "1">>, "openai">>, <<<<"c", "l", "a", "u", "d", "e">>, "anthropic">>,
    <<<<"g", "e", "m", "i", "n", "i">>, "google">>, <<<<"d", "e", "e", "p", "s", "e", "e", "k">>, "deepseek">>>>

ProviderAt(i) == IF i = 0 THEN "ValueError" ELSE PREFIX_TO_MODEL[i][2]

\* ModelProvider.from_model(model): the provider of the first prefix the
\* name starts with, "ValueError" when it starts with none.
from_model(model) ==
  ProviderAt(MinOr({i \in 1..Len(PREFIX_TO_MODEL) : startswith(model, PREFIX_TO_MODEL[i][1])}, 0))

\* Model.request: every provider branch returns the content stripped of
\* surrounding whitespace.
request(content) == strip(content, Whitespace)

\* The model names of the configuration ("" is the default of both).
ModelNames == {<<>>, <<"o", "1">>, <<"c", "l", "a", "u", "d", "e", "-", "3">>}

(***************************************************************************)
(* The contents the models answer with.                                    *)
(***************************************************************************)
SingleChunkContents ==
  {<<>>,
   <<Backtick, Backtick, Backtick, "j", "s", "o", "n", "\n", "[", "]", "\n", Backtick, Backtick, Backtick>>,
   <<"[", "{", "\"", "l", "i", "n", "e", "N", "u", "m", "b", "e", "r", "\"", ":", " ", "3", ",", " ", "\"", "r", "e", "v", "i", "e", "w", "C", "o", "m", "m", "e", "n", "t", "\"", ":", " ", "\"", "x", "\"", "}", "]", "\n">>,
   <<"o", "o", "p", "s">>,
   <<"n", "u", "l", "l">>,
   <<"{", "\"", "l", "i", "n", "e", "N", "u", "m", "b", "e", "r", "\"", ":", " ", "3", "}">>,
   <<"[", "{", "\"", "l", "i", "n", "e", "N", "u", "m", "b", "e", "r", "\"", ":", " ", "\"", "a", "\"", ",", " ", "\"", "r", "e", "v", "i", "e", "w", "C", "o", "m", "m", "e", "n", "t", "\"", ":", " ", "\"", "x", "\"", "}", "]">>,
   <<"[", "{", "\"", "r", "e", "v", "i", "e", "w", "C", "o", "m", "m", "e", "n", "t", "\"", ":", " ", "\"", "x", "\"", "}", "]">>}

FullContextContents == {<<>>, <<Backtick, Backtick, Backtick, "m", "a", "r", "k", "d", "o", "w", "n", "\n", "o", "k", "\n", Backtick, Backtick, Backtick>>, <<" ", "f", "i", "n", "e", "\n">>}

\* The content of a file at the head of the pull request.
FileContent == <<"c">>


(***************************************************************************)
(* The state of one run of main.                                           *)
(***************************************************************************)
\* Python's None; no text equals it, a text holding one-character strings.
None == <<"None">>

\* A local variable not assigned yet.
Unset == <<"unset">>

VARIABLES
  pc,                      \* where the run is
  error,                   \* the exception that ended the run, "none" if none
  raised_in,               \* the call that raised it
  log,                     \* what the run printed
  event_action,            \* EVENT_DATA["action"]
  EXCLUDE_PATTERNS,
  FULL_CONTEXT_MODEL_NAME,
  SINGLE_CHUNK_MODEL_NAME,
  sections,                \* the file sections the host rendered the diff from
  diff,                    \* main's diff, then parse_diff's argument
  pos,                     \* where file_pattern.finditer goes on
  list_diff,               \* parse_diff's list_diff
  outcomes,                \* how each iteration of parse_diff's loop ended
  parsed_diff,             \* main's parsed_diff
  chunk_i,                 \* the index of analyze_single_chunks' loop
  requests,                \* the files the per-chunk model was asked about
  chunk_response,          \* analyze_single_chunks' response
  comments,                \* analyze_single_chunks' comments
  context_i,               \* the index of analyze_full_context's loop
  file_contents,           \* analyze_full_context's file_contents
  context_response,        \* analyze_full_context's response
  posted                   \* the reviews handed to requests.post

vars ==
  <<pc, error, raised_in, log, event_action, EXCLUDE_PATTERNS,
    FULL_CONTEXT_MODEL_NAME, SINGLE_CHUNK_MODEL_NAME, sections, diff, pos,
    list_diff, outcomes, parsed_diff, chunk_i, requests, chunk_response,
    comments, context_i, file_contents, context_response, posted>>

config == <<event_action, EXCLUDE_PATTERNS, FULL_CONTEXT_MODEL_NAME, SINGLE_CHUNK_MODEL_NAME>>

parser == <<sections, diff, pos, list_diff, outcomes, parsed_diff>>

chunk_pass == <<chunk_i, requests, chunk_response, comments>>

context_pass == <<context_i, file_contents, context_response>>

\* The diffs of the runs of main: scenario A, two modified files, one
\* deleted file, a modified and a deleted file, no section at all.
MainDiffs ==
  {ScenarioASections,
   <<Section(<<"x", ".", "p", "y">>, "mod", <<3, 3>>, <<<<"-", "o">>, <<"+", "n">>>>),
     Section(<<"b", "i", "n", "/", "m">>, "mod", <<9, 12>>, <<<<"+", "n">>>>)>>,
   <<Section(<<"b", "i", "n", "/", "m">>, "del", <<1, 0>>, <<<<"-", "o">>>>)>>,
   <<>>}

Locals ==
  /\ error = "none"
  /\ raised_in = "none"
  /\ log = <<>>
  /\ pos = 1
  /\ list_diff = <<>>
  /\ outcomes = <<>>
  /\ parsed_diff = <<>>
  /\ chunk_i = 1
  /\ requests = <<>>
  /\ chunk_response = Unset
  /\ comments = <<>>
  /\ context_i = 1
  /\ file_contents = <<>>
  /\ context_response = Unset
  /\ posted = <<>>

\* The process after the module's globals are set (lines 10 to 26).
Init ==
  /\ pc = "main"
  /\ event_action \in {"opened", "synchronized", "closed"}
  /\ EXCLUDE_PATTERNS \in {split(e, ",") : e \in {<<>>, <<"*", ".", "p", "y">>}}
  /\ FULL_CONTEXT_MODEL_NAME \in ModelNames
  /\ SINGLE_CHUNK_MODEL_NAME \in ModelNames
  /\ sections = <<>>
  /\ diff = Unset
  /\ Locals

\* A variant in which main goes on to its last statement after an exception
\* raised before it.
PropagateAndPost(site) == IF site = "post_review" THEN "crashed" ELSE "post_review"

\* What an exception that nothing catches does to the run: main has no
\* try statement, so the process ends where the exception is raised.
Propagate(site) == "crashed"

Raise(exception, site) ==
  /\ pc' = Propagate(site)
  /\ error' = exception
  /\ raised_in' = site

NoRaise == UNCHANGED <<error, raised_in>>

\* main, lines 249 to 251.
Main ==
  /\ pc = "main"
  /\ IF event_action \notin {"opened", "synchronized"}
     THEN pc' = "exit" /\ log' = Append(log, "Unsupproted event.")
     ELSE pc' = "get_diff" /\ UNCHANGED log
  /\ NoRaise
  /\ UNCHANGED <<config, parser, chunk_pass, context_pass, posted>>

\* get_diff raises requests.RequestException inside: it returns None, and
\* main returns.
GetDiffFails ==
  /\ pc = "get_diff"
  /\ diff' = None
  /\ log' = Append(log, "Failed to get diff")
  /\ pc' = "exit"
  /\ NoRaise
  /\ UNCHANGED <<config, sections, pos, list_diff, outcomes, parsed_diff,
                 chunk_pass, context_pass, posted>>

\* get_diff returns response.text; main returns when it is empty.
GetDiff ==
  /\ pc = "get_diff"
  /\ \E d \in MainDiffs :
       /\ sections' = d
       /\ diff' = RenderDiff(d)
  /\ IF diff' = <<>>
     THEN pc' = "exit" /\ log' = Append(log, "No diff found.")
     ELSE pc' = "new_full_context_model" /\ UNCHANGED log
  /\ NoRaise
  /\ UNCHANGED <<config, pos, list_diff, outcomes, parsed_diff,
                 chunk_pass, context_pass, posted>>

\* Model(model=FULL_CONTEXT_MODEL_NAME, ...), lines 260 to 264.
NewFullContextModel ==
  /\ pc = "new_full_context_model"
  /\ IF from_model(FULL_CONTEXT_MODEL_NAME) = "ValueError"
     THEN Raise("ValueError", "Model")
     ELSE pc' = "new_single_chunk_model" /\ NoRaise
  /\ UNCHANGED <<log, config, parser, chunk_pass, context_pass, posted>>

\* Model(model=SINGLE_CHUNK_MODEL_NAME, ...), lines 265 to 269.
NewSingleChunkModel ==
  /\ pc = "new_single_chunk_model"
  /\ IF from_model(SINGLE_CHUNK_MODEL_NAME) = "ValueError"
     THEN Raise("ValueError", "Model")
     ELSE pc' = "parse_diff" /\ NoRaise
  /\ UNCHANGED <<log, config, parser, chunk_pass, context_pass, posted>>

\* One iteration of parse_diff's loop over file_pattern.finditer(diff).
ParseStep ==
  /\ pc = "parse_diff"
  /\ \E match \in {file_pattern(diff, pos)} :
       /\ match.found
       /\ pos' = match.end
       /\ \E r \in {ParseSection(match.group3, EXCLUDE_PATTERNS)} :
            /\ outcomes' = Append(outcomes, r.outcome)
            /\ list_diff' = list_diff \o Appended(r)
            /\ log' = IF r.outcome = "deleted" THEN Append(log, "Neglict deleted file")
                      ELSE IF r.outcome = "excluded" THEN Append(log, "Exclude file")
                      ELSE log
  /\ UNCHANGED <<pc, config, sections, diff, parsed_diff, chunk_pass, context_pass, posted>>
  /\ NoRaise

\* parse_diff returns list_diff.
ParseReturn ==
  /\ pc = "parse_diff"
  /\ ~file_pattern(diff, pos).found
  /\ parsed_diff' = list_diff
  /\ pc' = "analyze_single_chunks"
  /\ NoRaise
  /\ UNCHANGED <<log, config, sections, diff, pos, list_diff, outcomes,
                 chunk_pass, context_pass, posted>>


\* cleaned or "[]"
OrEmptyList(cleaned) == IF cleaned = <<>> THEN <<"[", "]">> ELSE cleaned

\* response.strip("`").lstrip("json").strip() or "[]", line 155.
CleanChunkResponse(response) ==
  OrEmptyList(strip(lstrip(strip(response, {Backtick}), {"j", "s", "o", "n"}), Whitespace))

\* response.strip("`").lstrip("markdown").strip(), line 220.
CleanContextResponse(response) ==
  strip(lstrip(strip(response, {Backtick}), {"m", "a", "r", "k", "d", "o", "w", "n"}),
        Whitespace)

\* analyze_single_chunks, lines 149 to 154: the model answers for the file
\* at chunk_i.
SingleChunkRequest ==
  /\ pc = "analyze_single_chunks"
  /\ chunk_i <= Len(parsed_diff)
  /\ requests' = Append(requests, parsed_diff[chunk_i].file)
  /\ \E content \in SingleChunkContents : chunk_response' = request(content)
  /\ pc' = "single_chunk_response"
  /\ NoRaise
  /\ UNCHANGED <<log, config, parser, chunk_i, comments, context_pass, posted>>

\* The same call when the provider's client raises (a network error, an API
\* error, a content of None): nothing between the client and main catches it.
SingleChunkRequestRaises ==
  /\ pc = "analyze_single_chunks"
  /\ chunk_i <= Len(parsed_diff)
  /\ requests' = Append(requests, parsed_diff[chunk_i].file)
  /\ Raise("APIError", "get_response_single_chunk")
  /\ UNCHANGED <<log, config, parser, chunk_i, chunk_response, comments,
                 context_pass, posted>>

\* analyze_single_chunks, lines 155 to 163: only json.JSONDecodeError is
\* caught; what create_comment raises leaves analyze_single_chunks.
SingleChunkResponse ==
  /\ pc = "single_chunk_response"
  /\ \E response_json \in {json_loads(CleanChunkResponse(chunk_response))} :
       IF ~response_json.ok
       THEN /\ log' = Append(log, "Failed to parse response")
            /\ pc' = "analyze_single_chunks"
            /\ chunk_i' = chunk_i + 1
            /\ NoRaise
            /\ UNCHANGED comments
       ELSE \E new_comments \in {create_comment(parsed_diff[chunk_i].file, response_json.val)} :
              IF new_comments.raises # "none"
              THEN /\ Raise(new_comments.raises, "create_comment")
                   /\ UNCHANGED <<log, chunk_i, comments>>
              ELSE /\ comments' = comments \o new_comments.comments
                   /\ pc' = "analyze_single_chunks"
                   /\ chunk_i' = chunk_i + 1
                   /\ NoRaise
                   /\ UNCHANGED log
  /\ UNCHANGED <<config, parser, requests, chunk_response, context_pass, posted>>

\* analyze_single_chunks returns comments, line 165.
SingleChunksReturn ==
  /\ pc = "analyze_single_chunks"
  /\ chunk_i > Len(parsed_diff)
  /\ pc' = "analyze_full_context"
  /\ NoRaise
  /\ UNCHANGED <<log, config, parser, chunk_pass, context_pass, posted>>

\* analyze_full_context, lines 205 to 213, get_file_content returning text.
GetFileContent ==
  /\ pc = "analyze_full_context"
  /\ context_i <= Len(parsed_diff)
  /\ file_contents' = file_contents \o
       <<<<"F", "i", "l", "e", ":", " ">> \o parsed_diff[context_i].file,
         FileContent,
         <<"D", "i", "f", "f", ":", " ">> \o parsed_diff[context_i].chunk>>
  /\ context_i' = context_i + 1
  /\ NoRaise
  /\ UNCHANGED <<pc, log, config, parser, chunk_pass, context_response, posted>>

\* The same iteration when get_file_content catches a RequestException and
\* returns None: the file is left out.
GetFileContentFails ==
  /\ pc = "analyze_full_context"
  /\ context_i <= Len(parsed_diff)
  /\ log' = Append(log, "Failed to get file content")
  /\ context_i' = context_i + 1
  /\ NoRaise
  /\ UNCHANGED <<pc, config, parser, chunk_pass, file_contents, context_response, posted>>

\* get_response_full_context returning the model's answer, lines 215 to 219.
FullContextRequest ==
  /\ pc = "analyze_full_context"
  /\ context_i > Len(parsed_diff)
  /\ \E content \in FullContextContents : context_response' = request(content)
  /\ pc' = "full_context_strip"
  /\ NoRaise
  /\ UNCHANGED <<log, config, parser, chunk_pass, context_i, file_contents, posted>>

\* get_response_full_context when self.request raises: its except clause
\* prints the error and the prompt and returns None (model.py, 167 to 170).
FullContextRequestRaises ==
  /\ pc = "analyze_full_context"
  /\ context_i > Len(parsed_diff)
  /\ context_response' = None
  /\ log' = Append(log, "Error during full context response")
  /\ pc' = "full_context_strip"
  /\ NoRaise
  /\ UNCHANGED <<config, parser, chunk_pass, context_i, file_contents, posted>>

\* analyze_full_context, lines 220 and 221: None has no strip method.
FullContextStrip ==
  /\ pc = "full_context_strip"
  /\ IF context_response = None
     THEN Raise("AttributeError", "analyze_full_context") /\ UNCHANGED context_response
     ELSE /\ context_response' = CleanContextResponse(context_response)
          /\ pc' = "post_review"
          /\ NoRaise
  /\ UNCHANGED <<log, config, parser, chunk_pass, context_i, file_contents, posted>>

Payload == [body |-> context_response, comments |-> comments]

\* post_review, lines 237 to 244, the host accepting the review.
PostReview ==
  /\ pc = "post_review"
  /\ posted' = Append(posted, Payload)
  /\ pc' = "done"
  /\ NoRaise
  /\ UNCHANGED <<log, config, parser, chunk_pass, context_pass>>

\* post_review when requests.post or raise_for_status raises.
PostReviewFails ==
  /\ pc = "post_review"
  /\ posted' = Append(posted, Payload)
  /\ Raise("RequestException", "post_review")
  /\ UNCHANGED <<log, config, parser, chunk_pass, context_pass>>

Next ==
  \/ Main
  \/ GetDiffFails
  \/ GetDiff
  \/ NewFullContextModel
  \/ NewSingleChunkModel
  \/ ParseStep
  \/ ParseReturn
  \/ SingleChunkRequest
  \/ SingleChunkRequestRaises
  \/ SingleChunkResponse
  \/ SingleChunksReturn
  \/ GetFileContent
  \/ GetFileContentFails
  \/ FullContextRequest
  \/ FullContextRequestRaises
  \/ FullContextStrip
  \/ PostReview
  \/ PostReviewFails

\* The runs of main.
Spec == Init /\ [][Next]_vars

(***************************************************************************)
(* parse_diff on its own: the diff and the exclusion patterns are drawn    *)
(* from the generated sets, and the loop of parse_diff runs on them.       *)
(***************************************************************************)
InitParse ==
  /\ pc = "parse_diff"
  /\ event_action = "opened"
  /\ EXCLUDE_PATTERNS \in {split(e, ",") : e \in ExcludeEnvs}
  /\ FULL_CONTEXT_MODEL_NAME = <<"o", "1">>
  /\ SINGLE_CHUNK_MODEL_NAME = <<"c", "l", "a", "u", "d", "e", "-", "3">>
  /\ sections \in Diffs
  /\ diff = RenderDiff(sections)
  /\ Locals

NextParse == ParseStep \/ ParseReturn

SpecParse == InitParse /\ [][NextParse]_vars


(***************************************************************************)
(* Reading the output of parse_diff against the sections the diff was      *)
(* rendered from.                                                          *)
(***************************************************************************)
\* The lines of a chunk.
ChunkLines(chunk) == IF chunk = <<>> THEN <<>> ELSE split(chunk, NL)

\* A tagged line is "<number> <line>"; no generated line starts with a digit.
IsTagged(l) == DigitsEnd(l, 1) > 1 /\ CharAt(l, DigitsEnd(l, 1)) = " "

\* The tag of a line, -1 for an untagged line.
LineTag(l) == IF IsTagged(l) THEN int(SubSeq(l, 1, DigitsEnd(l, 1) - 1)) ELSE -1

\* The line without its tag.
LineText(l) == IF IsTagged(l) THEN From(l, DigitsEnd(l, 1) + 1) ELSE l

\* The index in list_diff of the entry the i-th section appended.
EntryOf(i) == Cardinality({j \in 1..i : outcomes[j] = "appended"})

\* The parser is done with the diff.
Parsed == pc = "analyze_single_chunks"

\* The tag the k-th line of a hunk body is to carry: the declared start plus
\* the number of earlier lines of the same sign, -1 for any other line.
ExpectedTag(b, k, st) ==
  IF b[k][1] = "+" THEN st[2] + CountLines(SubSeq(b, 1, k - 1), {"+"})
  ELSE IF b[k][1] = "-" THEN st[1] + CountLines(SubSeq(b, 1, k - 1), {"-"})
  ELSE -1

\* Whether the (stripped) path or the path as the header gives it matches an
\* exclusion pattern.
ExcludedEitherWay(p) ==
  IsExcluded(p, EXCLUDE_PATTERNS) \/ IsExcluded(lstrip(p, {"b", "/"}), EXCLUDE_PATTERNS)

\* The sections of a diff without its deleted files.
RECURSIVE Undeleted(_)
Undeleted(secs) ==
  IF secs = <<>> THEN <<>>
  ELSE (IF secs[1].kind = "del" THEN <<>> ELSE <<secs[1]>>) \o Undeleted(Tail(secs))

\* C1: parsing the diff of scenario A yields exactly one entry, for x.py, in
\* which "-old" is tagged 2, "+new1" is tagged 2, "+new2" is tagged 3 and
\* " context" carries no tag.
C1_ScenarioATags ==
  (Parsed /\ diff = ScenarioA /\ EXCLUDE_PATTERNS = <<<<>>>>) =>
    /\ Len(parsed_diff) = 1
    /\ parsed_diff[1].file = <<"x", ".", "p", "y">>
    /\ LET ls == ChunkLines(parsed_diff[1].chunk)
       IN  /\ [k \in 1..Len(ls) |-> LineText(ls[k])] = <<<<" ", "c", "o", "n", "t", "e", "x", "t">>, <<"-", "o", "l", "d">>, <<"+", "n", "e", "w", "1">>, <<"+", "n", "e", "w", "2">>>>
           /\ [k \in 1..Len(ls) |-> LineTag(ls[k])] = <<-1, 2, 2, 3>>

\* C2: in every entry parse_diff appends, the k-th line of the hunk body that
\* begins with '+' is tagged new-start + (k - 1), the k-th that begins with
\* '-' is tagged old-start + (k - 1), and every other line (a context line,
\* the header of a later hunk) is kept as it is and advances no counter.
C2_TagsCountFromStart ==
  \A i \in 1..Len(outcomes) :
    outcomes[i] = "appended" =>
      LET b == sections[i].body
          ls == ChunkLines(list_diff[EntryOf(i)].chunk)
      IN  /\ Len(ls) = Len(b)
          /\ \A k \in 1..Len(b) :
               /\ LineText(ls[k]) = b[k]
               /\ LineTag(ls[k]) = ExpectedTag(b, k, sections[i].start)

\* A section with the header of a later hunk and an added line after it was
\* appended.
C2_Witness ==
  /\ Parsed
  /\ \E i \in 1..Len(outcomes) :
       /\ outcomes[i] = "appended"
       /\ sections[i].body = <<<<"@", "@", " ", "-", "7", " ", "+", "9", " ", "@", "@">>, <<"+", "n">>>>

\* C3: the path of every entry parse_diff appends is the path of the
\* section's "+++ b/<path>" line, for every path.
C3_PathIsHeaderPath ==
  \A i \in 1..Len(outcomes) :
    outcomes[i] = "appended" => list_diff[EntryOf(i)].file = sections[i].path

\* A response the per-chunk model may give that is not an array of
\* {lineNumber, reviewComment} entries with an integer-coercible lineNumber.
WellFormedItem(item) ==
  /\ item.t = "obj"
  /\ HasKey(item, KeyLineNumber)
  /\ HasKey(item, KeyReviewComment)
  /\ IntRaises(GetKey(item, KeyLineNumber)) = "none"

Malformed(response) ==
  LET j == json_loads(CleanChunkResponse(response))
  IN  \/ ~j.ok
      \/ j.val.t # "arr"
      \/ \E k \in 1..Len(j.val.v) : ~WellFormedItem(j.val.v[k])

\* C4: handling a malformed response of the per-chunk model leaves the
\* comments collected so far as they are and goes on with the next file; it
\* never ends the run.
C4_MalformedResponseSkipsFile ==
  [][(pc = "single_chunk_response" /\ Malformed(chunk_response)) =>
       (pc' = "analyze_single_chunks" /\ chunk_i' = chunk_i + 1 /\ comments' = comments)]_vars

\* C5: when the request of the full-context model fails, the summary handed
\* on is None and the run does not end there: it goes on to post_review.
C5_FullContextFailsSoft ==
  context_response = None => pc \in {"full_context_strip", "post_review", "done"}
     \/ (pc = "crashed" /\ raised_in = "post_review")

\* C6: an exception the per-chunk model call raises for one file does not end
\* the run: once it is raised, the run is still in the loop over the files,
\* or past it.
C6_ModelCallFailureSkipsFile ==
  raised_in = "get_response_single_chunk" => pc # "crashed"

\* C7: post_review is called at most once, and only when the diff was
\* fetched, the per-chunk pass has asked the model about every entry of
\* parsed_diff and handled the answer, and the full-context pass has
\* returned its text; a run that main returns from early, or that an
\* exception raised before post_review ends, has posted nothing.
C7_PostOnceAfterEverything ==
  /\ Len(posted) <= 1
  /\ posted # <<>> =>
       /\ diff \notin {Unset, None, <<>>}
       /\ parsed_diff = list_diff
       /\ chunk_i = Len(parsed_diff) + 1
       /\ requests = [i \in 1..Len(parsed_diff) |-> parsed_diff[i].file]
       /\ context_i = Len(parsed_diff) + 1
       /\ context_response \notin {Unset, None}
       /\ posted[1] = [body |-> context_response, comments |-> comments]
       /\ pc = "done" \/ (pc = "crashed" /\ raised_in = "post_review")
  /\ (pc = "exit" \/ (pc = "crashed" /\ raised_in # "post_review")) => posted = <<>>
  /\ pc \in {"main", "get_diff", "new_full_context_model", "new_single_chunk_model",
             "parse_diff", "analyze_single_chunks", "single_chunk_response",
             "analyze_full_context", "full_context_strip", "post_review"} => posted = <<>>

\* A run of two files that posted its review.
C7_Witness == pc = "done" /\ Len(posted) = 1 /\ Len(parsed_diff) = 2 /\ comments # <<>>

\* C8: a section whose new-file path matches an exclusion pattern appends no
\* entry, whatever its hunk holds.
C8_ExcludedPathNeverEmitted ==
  \A i \in 1..Len(outcomes) :
    IsExcluded(sections[i].path, EXCLUDE_PATTERNS) => outcomes[i] # "appended"

\* C9: a section whose new-path line is "+++ /dev/null" appends no entry, no
\* entry has the path "/dev/null", and the other sections of the diff are
\* parsed as they are without it.
C9_DeletedFileSkipped ==
  /\ \A i \in 1..Len(outcomes) : sections[i].kind = "del" => outcomes[i] = "deleted"
  /\ \A e \in 1..Len(list_diff) : list_diff[e].file # DevNull
  /\ Parsed =>
       /\ Len(outcomes) = Len(sections)
       /\ \A e \in 1..Len(parsed_diff) : parsed_diff[e].file # DevNull
       /\ parsed_diff = parse_diff(RenderDiff(Undeleted(sections)), 1, EXCLUDE_PATTERNS)

\* A diff with a deleted file and a file that was appended.
C9_Witness ==
  /\ Parsed
  /\ \E i, j \in 1..Len(outcomes) :
       /\ sections[i].kind = "del"
       /\ outcomes[j] = "appended"
       /\ Len(parsed_diff) = 1

\* C10: every section of a modified file (one "---" line, one "+++" line, a
\* hunk header) whose path is not excluded appends one entry, in the order of
\* the diff, whatever the lines of its hunk body are.
C10_EmissionIgnoresBody ==
  /\ Parsed => Len(outcomes) = Len(sections)
  /\ \A i \in 1..Len(outcomes) :
       (sections[i].kind = "mod" /\ ~ExcludedEitherWay(sections[i].path)) =>
         /\ outcomes[i] = "appended"
         /\ Len(ChunkLines(list_diff[EntryOf(i)].chunk)) = Len(sections[i].body)

====
